---- MODULE Spec2Model ----
(***************************************************************************)
(* Model of src/train.py: the fine-tuning run of main (model adaptation,   *)
(* the training/validation loop with early stopping, the final test pass   *)
(* and the checkpoint), the evaluation reporter on its own, and the head   *)
(* construction of net.                                                    *)
(*                                                                         *)
(* Abstractions.  A parameter vector (all tensors of the model) is one     *)
(* value of Params.  The forward pass of the external framework is the     *)
(* fixed deterministic function Predict of the parameters and of the       *)
(* transformed image.  A score 100.0 * correct_val / m is kept as its      *)
(* numerator 100 * correct_val over the fixed denominator m, which orders  *)
(* scores exactly as the floats do.                                        *)
(***************************************************************************)
EXTENDS Integers, Sequences, FiniteSets, TLC

\* ------------------------------------------------------------- bounds
MaxEpochs == 3
MaxTol == 3
ValidSize == 2
MaxParam == 1
TestSize == 2
MaxAug == 1
MaxClasses == 2
MaxRuns == 3
MaxWidth == 2
MaxLayers == 3

Params == 0..MaxParam
Augs == 0..MaxAug
TolValues == (0 - 1)..MaxTol
EpochValues == 0..MaxEpochs

VARIABLES
    epochs,      \* args.epochs
    tol,         \* args.tol
    pc,          \* position of main / train
    i,           \* loop variable of train's for loop
    params,      \* the live tensors of the model
    best_score,  \* train's best_score (numerator over m)
    best_model,  \* train's best_model
    count,       \* train's count
    score,       \* the score of the last validation pass (numerator over m)
    early,       \* "Early stopping." was logged
    error,       \* the exception that ended the run, "none" if none
    checkpoint,  \* content of model.pth, NoFile if not written
    saves,       \* number of torch.save calls
    reports,     \* what test has logged, one entry per run
    test_labels, \* labels of the test partition
    scores,      \* history: score of each completed validation pass
    paramsHist,  \* history: parameters at the end of each training pass
    retParams,   \* history: parameters when train returned
    F,           \* net: model.fc.in_features
    num_classes, \* net: num_classes
    layers,      \* net: layers
    seq,         \* net: seq
    k,           \* net: loop variable
    npc          \* net: position

trainVars == <<i, best_score, best_model, count, score, early, scores, paramsHist, retParams>>
mainVars == <<epochs, tol, pc, params, error, checkpoint, saves, reports, test_labels>>
netVars == <<F, num_classes, layers, seq, k, npc>>
vars == <<trainVars, mainVars, netVars>>

\* ------------------------------------------------------------ values
\* Python's None for best_model.
None == [kind |-> "none", val |-> 0]

\* No model.pth on disk.
NoFile == [kind |-> "nofile", val |-> 0]

\* model.state_dict(): a dict of the model's own tensors (shared storage), not a copy.
state_dict == [kind |-> "ref", val |-> 0]

\* The tensor values read through a state dict at the time of the read.
Tensors(sd, live) == IF sd.kind = "ref" THEN live ELSE sd.val

\* torch.save(model.state_dict(), path): the values are serialised to the file.
Serialized(live) == [kind |-> "file", val |-> Tensors(state_dict, live)]

\* m = len(valid_loader.dataset)
m == ValidSize

\* score = 100.0 * correct_val / m, as a numerator over m.
Score(correct_val) == 100 * correct_val

\* Variant: a tie counts as an improvement.
ImprovesLax(best, s) == best <= s

\* best_score < score
Improves(best, s) == best < s

\* Variant: count >= tol.
ReachedAtLeast(c, t) == c >= t

\* Variant: one epoch late, count == tol + 1.
ReachedLate(c, t) == c = t + 1

\* count == tol
Reached(c, t) == c = t

\* Variant: the evaluation pass applies an optimizer step.
EvalPassSteps(p) == (p + 1) % (MaxParam + 1)

\* An evaluation-mode pass (model.eval(), torch.no_grad(), no optimizer step): the
\* parameters after the pass.
EvalPass(p) == p

\* Variant: range(epochs + 1).
HasNextAlways(j, n) == j + 1 < n + 1

\* range(epochs) has another element after index j.
HasNext(j, n) == j + 1 < n

\* ----------------------------------------------------- test (lines 26-49)
\* output = model(data); pred = output.max(1)[1] for test image j under augmentation a.
Predict(p, j, a) == (p + j + a) % MaxClasses

\* correct: number of images whose prediction equals the label.
Correct(p, labels, augs) ==
    Cardinality({j \in DOMAIN labels : Predict(p, j, augs[j]) = labels[j]})

\* The logged line: correct, l and the loss (one unit of loss per miss, summed over
\* the examples; the average divides by l).
TestReport(p, labels, augs) ==
    [correct |-> Correct(p, labels, augs),
     l |-> Len(labels),
     loss_sum |-> Len(labels) - Correct(p, labels, augs)]

DefaultLabels == [j \in 1..TestSize |-> j % MaxClasses]

\* ------------------------------------------------------------- Init
NetIdle ==
    /\ F = 1
    /\ num_classes = 1
    /\ layers = <<>>
    /\ seq = <<>>
    /\ k = 0
    /\ npc = "idle"

TrainIdle ==
    /\ i = 0
    /\ best_score = 0
    /\ best_model = None
    /\ count = 0
    /\ score = 0
    /\ early = FALSE
    /\ scores = <<>>
    /\ paramsHist = <<>>
    /\ retParams = 0

Init ==
    /\ epochs \in EpochValues
    /\ tol \in TolValues
    /\ pc = "START"
    /\ params = 0
    /\ error = "none"
    /\ checkpoint = NoFile
    /\ saves = 0
    /\ reports = <<>>
    /\ test_labels = DefaultLabels
    /\ TrainIdle
    /\ NetIdle

\* ------------------------------------------------------------ main
\* An exception propagates out of main: nothing after the raising statement runs.
Raise(e) ==
    /\ pc' = "FAILED"
    /\ error' = e

\* main lines 203-220: net, DataParallel, criterion, hook, optimizer, loaders.
Setup ==
    /\ pc = "START"
    /\ \/ pc' = "INIT" /\ error' = error
       \/ Raise("setup")
    /\ UNCHANGED <<trainVars, netVars, epochs, tol, params, checkpoint, saves, reports,
                   test_labels>>

\* train lines 53-62: initialisation and the first test of the for loop.
TrainInit ==
    /\ pc = "INIT"
    /\ best_score' = 0
    /\ best_model' = None
    /\ count' = 0
    /\ i' = 0
    /\ pc' = IF HasNext(0 - 1, epochs) THEN "TRAIN_EPOCH" ELSE "DONE"
    /\ UNCHANGED <<score, early, scores, paramsHist, retParams, netVars, epochs, tol,
                   params, error, checkpoint, saves, reports, test_labels>>

\* train lines 64-90: one training pass; the optimizer steps update the tensors in
\* place.  A failure in a batch propagates, after some steps may have been applied.
TrainEpoch ==
    /\ pc = "TRAIN_EPOCH"
    /\ \E p \in Params :
        /\ params' = p
        /\ \/ /\ pc' = "VALIDATE_EPOCH"
              /\ error' = error
              /\ paramsHist' = Append(paramsHist, p)
           \/ /\ Raise("compute")
              /\ paramsHist' = paramsHist
    /\ UNCHANGED <<i, best_score, best_model, count, score, early, scores, retParams,
                   netVars, epochs, tol, checkpoint, saves, reports, test_labels>>

\* model.load_state_dict(sd): raises on None, else copies sd's tensors into the model.
LoadStateDict(sd, next) ==
    IF sd = None
    THEN Raise("unset_snapshot") /\ params' = params
    ELSE pc' = next /\ error' = error /\ params' = Tensors(sd, params)

\* train lines 92-126: one validation pass, then best tracking and early stopping.
ValidateEpoch ==
    /\ pc = "VALIDATE_EPOCH"
    /\ \/ /\ Raise("compute")
          /\ params' = EvalPass(params)
          /\ UNCHANGED <<i, best_score, best_model, count, score, early, scores>>
       \/ \E correct_val \in 0..m :
            LET s == Score(correct_val) IN
            /\ score' = s
            /\ scores' = Append(scores, s)
            /\ IF Improves(best_score, s)
               THEN /\ best_score' = s
                    /\ best_model' = state_dict
                    /\ count' = 0
                    /\ early' = early
                    /\ params' = EvalPass(params)
                    /\ error' = error
                    /\ IF HasNext(i, epochs)
                       THEN i' = i + 1 /\ pc' = "TRAIN_EPOCH"
                       ELSE i' = i /\ pc' = "DONE"
               ELSE /\ best_score' = best_score
                    /\ best_model' = best_model
                    /\ count' = count + 1
                    /\ IF Reached(count + 1, tol)
                       THEN /\ early' = TRUE
                            /\ i' = i
                            /\ LoadStateDict(best_model, "DONE")
                       ELSE /\ early' = early
                            /\ params' = EvalPass(params)
                            /\ error' = error
                            /\ IF HasNext(i, epochs)
                               THEN i' = i + 1 /\ pc' = "TRAIN_EPOCH"
                               ELSE i' = i /\ pc' = "DONE"
    /\ UNCHANGED <<paramsHist, retParams, netVars, epochs, tol, checkpoint, saves,
                   reports, test_labels>>

\* train lines 128-129: the restore after the loop, then the return to main.
TrainReturn ==
    /\ pc = "DONE"
    /\ LoadStateDict(best_model, "RETURNED")
    /\ retParams' = IF best_model = None THEN retParams ELSE Tensors(best_model, params)
    /\ UNCHANGED <<i, best_score, best_model, count, score, early, scores, paramsHist,
                   netVars, epochs, tol, checkpoint, saves, reports, test_labels>>

\* test lines 26-49: one evaluation pass over the test partition; every image goes
\* through the dataset's transform, which draws a random crop and flip (lines 160-176).
test(from, to) ==
    /\ pc = from
    /\ \/ /\ Raise("compute")
          /\ reports' = reports
       \/ /\ pc' = to
          /\ error' = error
          /\ \E augs \in [DOMAIN test_labels -> Augs] :
                reports' = Append(reports, TestReport(params, test_labels, augs))
    /\ params' = EvalPass(params)
    /\ UNCHANGED <<trainVars, netVars, epochs, tol, checkpoint, saves, test_labels>>

\* main line 224.
MainTest == test("RETURNED", "TESTED")

\* Variant: the checkpoint written as soon as train has returned, before the test pass.
SaveBeforeTest ==
    /\ pc = "RETURNED"
    /\ checkpoint = NoFile
    /\ checkpoint' = Serialized(params)
    /\ saves' = saves + 1
    /\ pc' = pc
    /\ UNCHANGED <<trainVars, netVars, epochs, tol, params, error, reports, test_labels>>

\* main lines 226-228.
Save ==
    /\ pc = "TESTED"
    /\ checkpoint' = Serialized(params)
    /\ saves' = saves + 1
    /\ pc' = "SAVED"
    /\ UNCHANGED <<trainVars, netVars, epochs, tol, params, error, reports, test_labels>>

Next ==
    \/ Setup
    \/ TrainInit
    \/ TrainEpoch
    \/ ValidateEpoch
    \/ TrainReturn
    \/ MainTest
    \/ Save

Spec == Init /\ [][Next]_vars

\* --------------------------------------- the evaluation reporter on its own
\* test called repeatedly on one model and one test partition, nothing in between.
InitEval ==
    /\ epochs = 0
    /\ tol = 0
    /\ pc = "EVAL"
    /\ params \in Params
    /\ error = "none"
    /\ checkpoint = NoFile
    /\ saves = 0
    /\ reports = <<>>
    /\ test_labels \in [1..TestSize -> 0..(MaxClasses - 1)]
    /\ TrainIdle
    /\ NetIdle

RunTest ==
    /\ Len(reports) < MaxRuns
    /\ test("EVAL", "EVAL")

NextEval == RunTest

SpecEval == InitEval /\ [][NextEval]_vars

\* ------------------------------------------------- net (lines 131-156)
Widths == 1..MaxWidth

LayerLists == UNION {[1..n -> Widths] : n \in 0..MaxLayers}

\* full = [num_features,] + layers + [num_classes,]
full == <<F>> \o layers \o <<num_classes>>

Linear(a, b) == [op |-> "Linear", in |-> a, out |-> b]
ReLU == [op |-> "ReLU", in |-> 0, out |-> 0]

\* Variant: range(len(full)-1).
HiddenCountOff == Len(full) - 1

\* range(len(full)-2): the number of iterations of the loop.
HiddenCount == Len(full) - 2

InitNet ==
    /\ epochs = 0
    /\ tol = 0
    /\ pc = "NET"
    /\ params = 0
    /\ error = "none"
    /\ checkpoint = NoFile
    /\ saves = 0
    /\ reports = <<>>
    /\ test_labels = DefaultLabels
    /\ TrainIdle
    /\ F \in Widths
    /\ num_classes \in 1..MaxClasses
    /\ layers \in LayerLists
    /\ seq = <<>>
    /\ k = 0
    /\ npc = "start"

\* net lines 133-144: the backbone is frozen, full is computed, seq is empty.
NetStart ==
    /\ npc = "start"
    /\ seq' = <<>>
    /\ k' = 0
    /\ npc' = "loop"
    /\ UNCHANGED <<F, num_classes, layers, trainVars, mainVars>>

\* net lines 146-148: one iteration of the loop (full[i] is full[k + 1] here).
NetHidden ==
    /\ npc = "loop"
    /\ k < HiddenCount
    /\ seq' = seq \o <<Linear(full[k + 1], full[k + 2]), ReLU>>
    /\ k' = k + 1
    /\ UNCHANGED <<F, num_classes, layers, npc, trainVars, mainVars>>

\* net lines 150-152: the last layer, Linear(full[-2], full[-1]).
NetLast ==
    /\ npc = "loop"
    /\ ~(k < HiddenCount)
    /\ seq' = Append(seq, Linear(full[Len(full) - 1], full[Len(full)]))
    /\ npc' = "built"
    /\ UNCHANGED <<F, num_classes, layers, k, trainVars, mainVars>>

NextNet ==
    \/ NetStart
    \/ NetHidden
    \/ NetLast

SpecNet == InitNet /\ [][NextNet]_vars

\* ------------------------------------------------------------ history
\* The largest of the scores seen, 0 (the initial best_score) if none exceeds it.
MaxOf(ss) ==
    IF \E j \in DOMAIN ss : ss[j] > 0
    THEN CHOOSE x \in {ss[j] : j \in DOMAIN ss} : \A j \in DOMAIN ss : ss[j] <= x
    ELSE 0

\* Epoch j strictly exceeded every earlier score and the initial best score 0.
ImprovedAt(ss, j) == ss[j] > 0 /\ \A h \in 1..(j - 1) : ss[h] < ss[j]

\* The last epoch that strictly improved on the best so far, 0 if none did.
LastImprove(ss) ==
    IF \E j \in DOMAIN ss : ImprovedAt(ss, j)
    THEN CHOOSE j \in DOMAIN ss :
            ImprovedAt(ss, j) /\ \A h \in DOMAIN ss : ImprovedAt(ss, h) => h <= j
    ELSE 0

\* The first epoch whose score is the highest of the run.
FirstBest(ss) ==
    CHOOSE j \in DOMAIN ss :
        /\ \A h \in DOMAIN ss : ss[h] <= ss[j]
        /\ \A h \in 1..(j - 1) : ss[h] < ss[j]

Min(a, b) == IF a <= b THEN a ELSE b

\* The loop of train has been left without an exception.
LoopLeft == pc \in {"DONE", "RETURNED", "TESTED", "SAVED"}

\* train has returned to main.
Returned == pc \in {"RETURNED", "TESTED", "SAVED"}

\* ------------------------------------------------------------- claims

\* C1: after train returns, the model's parameters are those the model had at the end
\* of the first epoch that reached the highest validation score of the run.
C1_RestoresBestEpoch ==
    (Returned /\ epochs >= 1) => params = paramsHist[FirstBest(scores)]

\* C2 (as stated, for every tol): when the loop is left and epoch k was the last to
\* improve strictly, the loop ran exactly min(k + tol, epochs) epochs, each with one
\* training and one validation pass, and none after.
C2_StopsAtKPlusTol ==
    (LoopLeft /\ LastImprove(scores) > 0) =>
        /\ Len(scores) = Min(LastImprove(scores) + tol, epochs)
        /\ Len(paramsHist) = Len(scores)

\* C2 (amended): the same for tol >= 1.
C2_StopsAtKPlusTolPositive ==
    (LoopLeft /\ LastImprove(scores) > 0 /\ tol >= 1) =>
        /\ Len(scores) = Min(LastImprove(scores) + tol, epochs)
        /\ Len(paramsHist) = Len(scores)
        /\ (tol = 1 /\ early) => Len(scores) = LastImprove(scores) + 1

C2_Witness ==
    /\ pc = "DONE"
    /\ early
    /\ tol = 1
    /\ epochs > 2
    /\ Len(scores) = 2
    /\ LastImprove(scores) = 1
    /\ scores[2] < scores[1]

\* C3: at the end of every epoch a score strictly above the best so far becomes the
\* best score, the snapshot holds this epoch's parameters and the counter is 0;
\* otherwise (a tie included) best score and snapshot stay and the counter grows by
\* one.  So the best score is the highest score seen and the counter is the number of
\* epochs since the last strict improvement.
C3_BestTracking ==
    [][(pc = "VALIDATE_EPOCH" /\ scores' # scores) =>
        /\ IF score' > best_score
           THEN /\ best_score' = score'
                /\ best_model' # None
                /\ Tensors(best_model', params') = paramsHist[Len(paramsHist)]
                /\ count' = 0
           ELSE /\ best_score' = best_score
                /\ best_model' = best_model
                /\ count' = count + 1
        /\ best_score' = MaxOf(scores')
        /\ count' = Len(scores') - LastImprove(scores')]_vars

C3_Witness ==
    /\ Len(scores) = 3
    /\ scores[1] > 0
    /\ scores[2] = scores[1]
    /\ scores[3] > scores[2]
    /\ count = 0
    /\ best_score = scores[3]

\* C4: a run of train goes INIT -> (TRAIN_EPOCH -> VALIDATE_EPOCH)* -> DONE: a training
\* pass is followed by a validation pass before the next training pass, DONE is
\* entered from INIT (epochs exhausted at 0) or from a validation pass only, and there
\* are at most epochs training passes.
C4_StateMachine ==
    [][/\ pc = "INIT" /\ pc' # pc => pc' = "TRAIN_EPOCH" \/ (pc' = "DONE" /\ epochs <= 0)
       /\ pc = "TRAIN_EPOCH" /\ pc' # pc => pc' \in {"VALIDATE_EPOCH", "FAILED"}
       /\ pc = "VALIDATE_EPOCH" /\ pc' # pc => pc' \in {"TRAIN_EPOCH", "DONE", "FAILED"}
       /\ pc' = "DONE" /\ pc # pc' => pc \in {"INIT", "VALIDATE_EPOCH"}
       /\ paramsHist' # paramsHist =>
            /\ pc = "TRAIN_EPOCH"
            /\ Len(paramsHist) = Len(scores)
            /\ Len(paramsHist') = Len(paramsHist) + 1
       /\ scores' # scores =>
            /\ pc = "VALIDATE_EPOCH"
            /\ Len(paramsHist) = Len(scores) + 1
            /\ Len(scores') = Len(scores) + 1
       /\ Len(paramsHist') <= epochs
       /\ pc' = "DONE" => Len(scores') = Len(paramsHist')]_vars

C4_Witness ==
    /\ pc = "DONE"
    /\ ~early
    /\ epochs >= 2
    /\ Len(paramsHist) = epochs
    /\ Len(scores) = epochs

\* C5: model.pth is written at most once, only after train has returned and the test
\* pass has completed, it holds the state restored when train returned, and a run
\* that raised an error has written no checkpoint.
C5_CheckpointOnlyAtEnd ==
    /\ saves <= 1
    /\ (saves = 0) = (checkpoint = NoFile)
    /\ checkpoint # NoFile =>
        /\ pc = "SAVED"
        /\ error = "none"
        /\ best_model # None
        /\ Len(reports) = 1
        /\ checkpoint.val = retParams
    /\ error # "none" => checkpoint = NoFile /\ pc = "FAILED"

C5_Witness ==
    /\ pc = "SAVED"
    /\ checkpoint = [kind |-> "file", val |-> retParams]
    /\ Len(scores) >= 2
    /\ retParams # 0

\* C6: a validation pass and the test pass leave the parameters as they were, test
\* leaves best score, snapshot and counter untouched, and the parameters change only
\* in a training pass or when the controller restores the snapshot.
C6_EvalFrame ==
    [][/\ (pc = "VALIDATE_EPOCH" /\ ~(early' /\ ~early)) => params' = params
       /\ (pc = "VALIDATE_EPOCH" /\ early' /\ ~early) =>
            params' \in {params, Tensors(best_model, params)}
       /\ pc = "RETURNED" =>
            /\ params' = params
            /\ best_score' = best_score
            /\ best_model' = best_model
            /\ count' = count
       /\ params' # params =>
            pc = "TRAIN_EPOCH" \/ pc = "DONE" \/ (pc = "VALIDATE_EPOCH" /\ early')]_vars

C6_Witness ==
    /\ pc = "TESTED"
    /\ Len(reports) = 1
    /\ Len(scores) >= 2
    /\ params # 0

\* C7: two runs of test on the same model and the same test partition, with nothing
\* in between, report the same loss and the same accuracy.
C7_TestRepeatable ==
    \A a, b \in DOMAIN reports : reports[a] = reports[b]

\* C8: the linear layers of the head built by net have, in order, the widths of the
\* consecutive pairs of [F] + layers + [num_classes], there are len(layers) + 1 of
\* them, and an activation follows each linear layer but the last.
C8_HeadShape ==
    npc = "built" =>
        LET n == Len(layers) IN
        /\ Len(seq) = 2 * n + 1
        /\ \A j \in 1..(n + 1) : seq[2 * j - 1] = Linear(full[j], full[j + 1])
        /\ \A j \in 1..n : seq[2 * j] = ReLU
        /\ Cardinality({j \in DOMAIN seq : seq[j].op = "Linear"}) = n + 1
        /\ Cardinality({j \in DOMAIN seq : seq[j].op = "ReLU"}) = n
        /\ n = 0 => seq = <<Linear(F, num_classes)>>

C8_Witness ==
    /\ npc = "built"
    /\ Len(layers) = 2
    /\ layers[1] # layers[2]
    /\ Len(seq) = 5

\* C9: with epochs >= 1 and tol >= 1 the restore never reads an unset snapshot.
C9_SnapshotSetAtRestore ==
    (epochs >= 1 /\ tol >= 1) => error # "unset_snapshot"

\* C10: early stopping fires only in an epoch whose counter, just incremented, equals
\* tol; with tol <= 0 or tol > epochs it never fires and the loop runs epochs epochs.
C10_EarlyStopOnlyAtTol ==
    [][/\ (early' /\ ~early) =>
            /\ pc = "VALIDATE_EPOCH"
            /\ count' = count + 1
            /\ count' = tol
       /\ (tol <= 0 \/ tol > epochs) =>
            /\ ~early'
            /\ (pc' \in {"DONE", "RETURNED", "TESTED", "SAVED"}) => Len(scores') = epochs]_vars

C10_Witness ==
    /\ pc = "DONE"
    /\ tol <= 0
    /\ epochs >= 2
    /\ Len(scores) = epochs
    /\ count >= 2

====
